---------------------------- MODULE Spec2Model ----------------------------
(***************************************************************************)
(* Job declaration -> crontab reconciliation -> execution -> audit, as     *)
(* implemented by config_manager.py, cron_manager.py, run_scheduled.py,    *)
(* src/automation/job_executor.py and database_connection.py.              *)
(*                                                                         *)
(* Text is modelled the way the code handles it: a crontab text is the     *)
(* sequence of lines Python's text.split("\n") returns (never empty: the   *)
(* empty text is the one-line sequence << <<>> >>), and a line is a        *)
(* sequence of tokens, each token a piece of text without a newline; the   *)
(* token " " is whitespace.                                                *)
(***************************************************************************)
EXTENDS Integers, Sequences, FiniteSets, TLC

VARIABLES
    jobs,        \* table scheduled_jobs: a function from the stored job_names to rows
    crontab,     \* the user's crontab text, as lines
    cronBefore,  \* history: the crontab text before the last operation
    last,        \* history: the last operation, its arguments and result
    ledger,      \* table job_execution_log: sequence of rows, id = index
    cronOps,     \* history: number of install_jobs/uninstall_jobs calls so far
    run,         \* per runner process: position and locals of run_job
    now,         \* the database clock read by NOW()
    toggles,     \* per store client: position and locals of enable_config/disable_config
    marks,       \* history: per job, the mark_job_executed calls since its row was created
    calls,       \* per crontab caller: position and locals of install_jobs/uninstall_jobs
    ui,          \* the schedule form: its inputs, the cron expression, the verdict
    peak         \* history: per job name, the highest run_count ever stored

vars == <<jobs, crontab, cronBefore, last, cronOps, ledger, run, now,
          toggles, marks, calls, ui, peak>>

\* the variables of the concurrent store clients, the crontab callers and
\* the schedule form
clients == <<toggles, marks, calls, ui>>

----------------------------------------------------------------------------
(* Bounds of the model *)

MaxCronOps   == 2     \* calls of install_jobs and uninstall_jobs explored
MaxRuns      == 2     \* rows of job_execution_log
MaxNow       == 2     \* values of the database clock
MaxMarks     == 2     \* calls of mark_job_executed per job

----------------------------------------------------------------------------
(* Text: tokens, lines, strip, split/join *)

WS == " "

\* str.strip() on one line: leading whitespace removed
RECURSIVE LStrip(_)
LStrip(line) ==
    IF line = <<>> THEN <<>>
    ELSE IF Head(line) = WS THEN LStrip(Tail(line)) ELSE line

\* str.strip() on one line: trailing whitespace removed
RECURSIVE RStrip(_)
RStrip(line) ==
    IF line = <<>> THEN <<>>
    ELSE IF line[Len(line)] = WS THEN RStrip(SubSeq(line, 1, Len(line) - 1))
         ELSE line

Strip(line) == RStrip(LStrip(line))

\* line.strip() is falsy
IsBlank(line) == Strip(line) = <<>>

\* str.strip() on a whole text given as lines: "\n" is whitespace too, so
\* leading and trailing blank lines go, and the first and last line left
\* lose their outer whitespace.  The empty text is << <<>> >>.
RECURSIVE DropLeadingBlank(_)
DropLeadingBlank(lines) ==
    IF lines = <<>> THEN <<>>
    ELSE IF IsBlank(Head(lines)) THEN DropLeadingBlank(Tail(lines)) ELSE lines

RECURSIVE DropTrailingBlank(_)
DropTrailingBlank(lines) ==
    IF lines = <<>> THEN <<>>
    ELSE IF IsBlank(lines[Len(lines)])
         THEN DropTrailingBlank(SubSeq(lines, 1, Len(lines) - 1))
         ELSE lines

TextStrip(lines) ==
    LET core == DropTrailingBlank(DropLeadingBlank(lines))
        n    == Len(core)
    IN  IF n = 0 THEN << <<>> >>
        ELSE IF n = 1 THEN << Strip(core[1]) >>
        ELSE << LStrip(core[1]) >> \o SubSeq(core, 2, n - 1) \o << RStrip(core[n]) >>

\* text + "\n", in terms of the lines of split("\n")
PlusNewline(lines) == lines \o << <<>> >>

\* "\n".join(parts): an empty list joins to the empty text
Join(lines) == IF lines = <<>> THEN << <<>> >> ELSE lines

\* needle in line (substring, at token granularity)
LineContains(line, needle) ==
    \E i \in 1..(Len(line) - Len(needle) + 1) :
        SubSeq(line, i, i + Len(needle) - 1) = needle

\* needle in text, for a needle without a newline
TextContains(lines, needle) ==
    \E k \in 1..Len(lines) : LineContains(lines[k], needle)

----------------------------------------------------------------------------
(* cron_manager.py: CronManager *)

MARKER_START == <<"#", WS, "GPW_SCRAPER_START">>
MARKER_END   == <<"#", WS, "GPW_SCRAPER_END">>

PythonPath == <<"/proj/.venv/bin/python">>
RunScript  == <<"/proj/", "run_scheduled.py">>
LogFile(job_name) == <<"/proj/logs/", job_name, ".log">>

IsStart(line) == Strip(line) = MARKER_START
IsEnd(line)   == Strip(line) = MARKER_END

\* the value of in_our_section when the loop reaches line i
RECURSIVE InOurSection(_, _)
InOurSection(lines, i) ==
    IF i <= 1 THEN FALSE
    ELSE IF IsStart(lines[i - 1]) THEN TRUE
    ELSE IF IsEnd(lines[i - 1]) THEN FALSE
    ELSE InOurSection(lines, i - 1)

\* a loop that copies every line, the old section included
InstallKeep_NoExcise(lines, n) == SubSeq(lines, 1, n)

\* the loop of install_jobs: the lines it appends to new_lines
RECURSIVE InstallKeep(_, _)
InstallKeep(lines, n) ==
    IF n = 0 THEN <<>>
    ELSE LET rest == InstallKeep(lines, n - 1)
         IN  IF IsStart(lines[n]) \/ IsEnd(lines[n]) THEN rest
             ELSE IF ~InOurSection(lines, n) THEN Append(rest, lines[n])
             ELSE rest

\* the loop of uninstall_jobs: the lines it appends to new_lines
RECURSIVE UninstallKeep(_, _)
UninstallKeep(lines, n) ==
    IF n = 0 THEN <<>>
    ELSE LET rest == UninstallKeep(lines, n - 1)
         IN  IF IsStart(lines[n]) \/ IsEnd(lines[n]) THEN rest
             ELSE IF ~InOurSection(lines, n) /\ ~IsBlank(lines[n])
                  THEN Append(rest, lines[n])
             ELSE rest

\* the loop of get_installed_jobs
RECURSIVE InstalledLines(_, _)
InstalledLines(lines, n) ==
    IF n = 0 THEN <<>>
    ELSE LET rest == InstalledLines(lines, n - 1)
             s    == Strip(lines[n])
         IN  IF IsStart(lines[n]) \/ IsEnd(lines[n]) THEN rest
             ELSE IF InOurSection(lines, n) /\ s # <<>> /\ Head(s) # "#"
                  THEN Append(rest, s)
             ELSE rest

get_installed_jobs(text) ==
    IF ~TextContains(text, MARKER_START) THEN <<>>
    ELSE InstalledLines(text, Len(text))


----------------------------------------------------------------------------
(* database_connection.py: table scheduled_jobs *)

\* job names are free text (save_config does not restrict them); the spec's
\* data model asks only for no whitespace.  ORDER BY job_name gives JobOrder.
JobOrder == <<"ABC_weekly", "GPW_SCRAPER_END", "PKO_daily">>
JobNames == {JobOrder[i] : i \in 1..Len(JobOrder)}

Daily0900  == <<"0", WS, "9", WS, "*", WS, "*", WS, "*">>
Weekly0630 == <<"30", WS, "6", WS, "*", WS, "*", WS, "1">>

\* the declarations save_config is called with: job name and schedule
SaveInputs == { <<"ABC_weekly", Weekly0630>>, <<"GPW_SCRAPER_END", Daily0900>>,
                <<"PKO_daily", Daily0900>>, <<"PKO_daily", Weekly0630>> }

\* NULL for a number or a time, None for a text, NoList for a list (lists
\* and JSON texts are sequences of tokens)
NULL == 0
None == "None"
NoList == <<None>>

\* report_limit: int = 5, the default of insert_scheduled_job
DefaultReportLimit == 5

Stored(job_name) == job_name \in DOMAIN jobs

\* the history of run_count, once the table has become tbl
Peak(tbl) ==
    [j \in JobNames |->
        IF j \in DOMAIN tbl /\ tbl[j].run_count > peak[j]
        THEN tbl[j].run_count ELSE peak[j]]

\* `if value` of Python for a list or a JSON text: None and the empty one
\* are falsy
Truthy(value) == value # NoList /\ value # <<>>

\* json.dumps of a list and json.loads of the text it gives
json_dumps(list) == <<"[">> \o list \o <<"]">>
json_loads(text) == SubSeq(text, 2, Len(text) - 1)

\* a statement that replaces the row, as REPLACE INTO does
OnDuplicateKeyUpdate_Replace(row, company, model, cron_schedule, enabled, report_limit, report_types, report_categories) ==
    [job_name |-> row.job_name, company |-> company, model |-> model,
     cron_schedule |-> cron_schedule, enabled |-> enabled,
     report_limit |-> report_limit, report_types |-> report_types,
     report_categories |-> report_categories,
     run_count |-> 0, last_run |-> NULL, next_run |-> NULL]

\* the statement of insert_scheduled_job written on a key that is stored:
\* ON DUPLICATE KEY UPDATE sets the listed columns and nothing else
OnDuplicateKeyUpdate(row, company, model, cron_schedule, enabled, report_limit, report_types, report_categories) ==
    [row EXCEPT !.company = company, !.model = model,
                !.cron_schedule = cron_schedule, !.enabled = enabled,
                !.report_limit = report_limit,
                !.report_types = report_types,
                !.report_categories = report_categories]

\* INSERT ... ON DUPLICATE KEY UPDATE: a new row starts with run_count 0 and
\* no last_run and next_run; an existing row keeps them.  A list is stored
\* as JSON, a falsy one as NULL.
insert_scheduled_job(tbl, job_name, company, model, cron_schedule, enabled, report_limit, report_types, report_categories) ==
    LET report_types_json ==
            IF Truthy(report_types) THEN json_dumps(report_types) ELSE NoList
        report_categories_json ==
            IF Truthy(report_categories) THEN json_dumps(report_categories)
            ELSE NoList
    IN  [k \in DOMAIN tbl \cup {job_name} |->
            IF k # job_name THEN tbl[k]
            ELSE IF job_name \in DOMAIN tbl
                 THEN OnDuplicateKeyUpdate(tbl[job_name], company, model,
                          cron_schedule, enabled, report_limit,
                          report_types_json, report_categories_json)
                 ELSE [job_name |-> job_name, company |-> company,
                       model |-> model, cron_schedule |-> cron_schedule,
                       enabled |-> enabled, report_limit |-> report_limit,
                       report_types |-> report_types_json,
                       report_categories |-> report_categories_json,
                       run_count |-> 0, last_run |-> NULL, next_run |-> NULL]]

delete_scheduled_job(tbl, job_name) ==
    [k \in DOMAIN tbl \ {job_name} |-> tbl[k]]

\* UPDATE ... SET last_run = NOW(), next_run = %s, run_count = run_count + 1
\* WHERE job_name
update_job_run_stats(tbl, job_name, next_run, t) ==
    [k \in DOMAIN tbl |->
        IF k = job_name
        THEN [tbl[k] EXCEPT !.run_count = @ + 1, !.last_run = t,
                            !.next_run = next_run]
        ELSE tbl[k]]

\* the parsing of the JSON columns of a row read
ParseRow(row) ==
    [row EXCEPT !.report_types = IF Truthy(@) THEN json_loads(@) ELSE @,
                !.report_categories = IF Truthy(@) THEN json_loads(@) ELSE @]

\* SELECT * FROM scheduled_jobs WHERE job_name, for a job that has a row
get_scheduled_job(tbl, job_name) == ParseRow(tbl[job_name])

\* SELECT * FROM scheduled_jobs ORDER BY job_name
RECURSIVE get_all_scheduled_jobs(_, _)
get_all_scheduled_jobs(tbl, n) ==
    IF n = 0 THEN <<>>
    ELSE LET rest == get_all_scheduled_jobs(tbl, n - 1)
         IN  IF JobOrder[n] \in DOMAIN tbl
             THEN Append(rest, ParseRow(tbl[JobOrder[n]])) ELSE rest

----------------------------------------------------------------------------
(* config_manager.py: ScrapingConfig, ConfigManager *)

\* a from_db_row that reads every row as enabled
from_db_row_AlwaysEnabled(row) ==
    [job_name |-> row.job_name, company |-> row.company, model |-> row.model,
     cron_schedule |-> row.cron_schedule, enabled |-> TRUE,
     report_types |-> row.report_types,
     report_categories |-> row.report_categories, description |-> <<>>,
     run_count |-> row.run_count, last_run |-> row.last_run,
     next_run |-> row.next_run]

\* a from_db_row that does not pass the report lists
from_db_row_NoLists(row) ==
    [job_name |-> row.job_name, company |-> row.company, model |-> row.model,
     cron_schedule |-> row.cron_schedule, enabled |-> row.enabled,
     report_types |-> NoList, report_categories |-> NoList,
     description |-> <<>>,
     run_count |-> row.run_count, last_run |-> row.last_run,
     next_run |-> row.next_run]

\* ScrapingConfig.from_db_row: description and report_limit are not passed
\* (the dataclass has no report_limit), so a loaded config has the default
\* description ""
from_db_row(row) ==
    [job_name |-> row.job_name, company |-> row.company, model |-> row.model,
     cron_schedule |-> row.cron_schedule, enabled |-> row.enabled,
     report_types |-> row.report_types,
     report_categories |-> row.report_categories, description |-> <<>>,
     run_count |-> row.run_count, last_run |-> row.last_run,
     next_run |-> row.next_run]

\* ConfigManager.load_config: None when the job has no row
load_config(tbl, job_name) ==
    IF job_name \notin DOMAIN tbl THEN None
    ELSE from_db_row(get_scheduled_job(tbl, job_name))

\* ScrapingConfig(...) as a caller builds it, the fields not given taking
\* the dataclass defaults
ScrapingConfig(job_name, company, model, cron_schedule, enabled, report_types, report_categories, description) ==
    [job_name |-> job_name, company |-> company, model |-> model,
     cron_schedule |-> cron_schedule, enabled |-> enabled,
     report_types |-> report_types, report_categories |-> report_categories,
     description |-> description,
     run_count |-> 0, last_run |-> NULL, next_run |-> NULL]

\* the config of a job of company PKO summarised by model llama3
PlainConfig(job_name, cron_schedule, enabled) ==
    ScrapingConfig(job_name, "PKO", "llama3", cron_schedule, enabled,
                   NoList, NoList, <<>>)

list_configs(tbl) ==
    LET rows == get_all_scheduled_jobs(tbl, Len(JobOrder))
    IN  [i \in 1..Len(rows) |-> from_db_row(rows[i])]

----------------------------------------------------------------------------
(* cron_manager.py: the managed section *)

\* the command line of one job
CommandLine(config) ==
    config.cron_schedule \o <<WS>> \o PythonPath \o <<WS>> \o RunScript
        \o <<WS, config.job_name, WS, ">>", WS>> \o LogFile(config.job_name)
        \o <<WS, "2>&1">>

\* f"# {config.description or config.job_name}"
CommentLine(config) ==
    <<"#", WS>> \o (IF config.description # <<>> THEN config.description
                    ELSE <<config.job_name>>)

RECURSIVE SectionBody(_, _)
SectionBody(configs, n) ==
    IF n = 0 THEN <<>>
    ELSE LET rest == SectionBody(configs, n - 1)
         IN  IF ~configs[n].enabled THEN rest
             ELSE rest \o <<CommentLine(configs[n]), CommandLine(configs[n])>>

get_our_jobs_section(configs) ==
    <<MARKER_START>> \o SectionBody(configs, Len(configs)) \o <<MARKER_END>>

\* an install_jobs that takes every config for active
ActiveConfigs_All(tbl) == list_configs(tbl)

\* active_configs of install_jobs
ActiveConfigs(tbl) == SelectSeq(list_configs(tbl), LAMBDA c : c.enabled)

\* new_crontab of install_jobs, from the text read and the active configs
InstallText(current, active) ==
    PlusNewline(TextStrip(Join(
        InstallKeep(current, Len(current)) \o get_our_jobs_section(active))))

\* new_crontab of uninstall_jobs, from the text read
UninstallText(current) ==
    LET new_lines == UninstallKeep(current, Len(current))
    IN  IF new_lines # <<>> THEN PlusNewline(TextStrip(Join(new_lines)))
        ELSE << <<>> >>

----------------------------------------------------------------------------
(* History kept for the properties *)

\* repeat: the operation is a successful install_jobs that directly follows
\* a successful install_jobs
Op(op, job, ok, io) ==
    [op |-> op, job |-> job, ok |-> ok, io |-> io,
     repeat |-> op = "install" /\ ok /\ last.op = "install" /\ last.ok]

NoJob == "-"

\* the history records the calls of install_jobs and uninstall_jobs; an
\* operation on the declarations in between is recorded as "declare"
Declared == Op("declare", NoJob, TRUE, <<>>)

----------------------------------------------------------------------------
(* Operations on job declarations *)

\* a save_config that writes the whole config, its statistics included
SavedTable_WritesStats(tbl, config) ==
    LET saved == insert_scheduled_job(tbl, config.job_name, config.company,
                     config.model, config.cron_schedule, config.enabled,
                     DefaultReportLimit, config.report_types,
                     config.report_categories)
    IN  [saved EXCEPT ![config.job_name].run_count = config.run_count,
                      ![config.job_name].last_run = config.last_run,
                      ![config.job_name].next_run = config.next_run]

\* the table after ConfigManager.save_config: report_limit is not passed
\* and takes the default of insert_scheduled_job
SavedTable(tbl, config) ==
    insert_scheduled_job(tbl, config.job_name, config.company, config.model,
                         config.cron_schedule, config.enabled,
                         DefaultReportLimit, config.report_types,
                         config.report_categories)

\* ConfigManager.save_config
save_config(config) ==
    /\ jobs' = SavedTable(jobs, config)
    /\ last' = Declared
    /\ cronBefore' = crontab
    /\ UNCHANGED <<crontab, cronOps, ledger, run, now>>
    /\ UNCHANGED clients
    /\ peak' = Peak(jobs')

\* ConfigManager.enable_config / disable_config: load, set the flag, save
set_enabled(job_name, flag) ==
    /\ jobs' = IF Stored(job_name)
               THEN SavedTable(jobs, [load_config(jobs, job_name)
                                         EXCEPT !.enabled = flag])
               ELSE jobs
    /\ last' = Declared
    /\ cronBefore' = crontab
    /\ UNCHANGED <<crontab, cronOps, ledger, run, now>>
    /\ UNCHANGED clients
    /\ peak' = Peak(jobs')

enable_config(job_name) == set_enabled(job_name, TRUE)

disable_config(job_name) == set_enabled(job_name, FALSE)

\* ConfigManager.delete_config, as called by delete_config_ui
delete_config(job_name) ==
    /\ jobs' = IF Stored(job_name) THEN delete_scheduled_job(jobs, job_name)
               ELSE jobs
    /\ marks' = [marks EXCEPT ![job_name] = 0]
    /\ last' = Declared
    /\ cronBefore' = crontab
    /\ UNCHANGED <<crontab, cronOps, ledger, run, now, toggles, calls>>
    /\ UNCHANGED ui
    /\ peak' = Peak(jobs')

----------------------------------------------------------------------------
(* Operations on the crontab *)

\* CronManager.install_jobs; write_ok is the outcome of `crontab -`
install_jobs(write_ok) ==
    LET active == ActiveConfigs(jobs)
    IN  /\ cronOps < MaxCronOps
        /\ cronOps' = cronOps + 1
        /\ cronBefore' = crontab
        /\ IF active = <<>>
           THEN /\ last' = Op("install", NoJob, FALSE, <<>>)
                /\ UNCHANGED crontab
           ELSE /\ crontab' = IF write_ok THEN InstallText(crontab, active)
                              ELSE crontab
                /\ last' = Op("install", NoJob, write_ok, <<"read", "write">>)
        /\ UNCHANGED <<jobs, ledger, run, now>>
        /\ UNCHANGED clients
        /\ UNCHANGED peak

\* CronManager.uninstall_jobs
uninstall_jobs(write_ok) ==
    /\ cronOps < MaxCronOps
    /\ cronOps' = cronOps + 1
    /\ cronBefore' = crontab
    /\ IF ~TextContains(crontab, MARKER_START)
       THEN /\ last' = Op("uninstall", NoJob, TRUE, <<"read">>)
            /\ UNCHANGED crontab
       ELSE /\ crontab' = IF write_ok THEN UninstallText(crontab) ELSE crontab
            /\ last' = Op("uninstall", NoJob, write_ok, <<"read", "write">>)
    /\ UNCHANGED <<jobs, ledger, run, now>>
    /\ UNCHANGED clients
    /\ UNCHANGED peak

----------------------------------------------------------------------------
(* database_connection.py: table job_execution_log *)

\* INSERT INTO job_execution_log (job_name, status, started_at); the new
\* row's id (cursor.lastrowid) is its index
insert_job_execution(log, job_name, status, t) ==
    Append(log, [job_name |-> job_name, status |-> status, started_at |-> t,
                 finished_at |-> NULL, duration_seconds |-> NULL,
                 error_message |-> None])

\* UPDATE job_execution_log SET status, finished_at = NOW(),
\* duration_seconds, error_message WHERE id = execution_id
update_job_execution(log, execution_id, status, error_message, t) ==
    [i \in 1..Len(log) |->
        IF i = execution_id
        THEN [log[i] EXCEPT !.status = status, !.finished_at = t,
                            !.duration_seconds = t - log[i].started_at,
                            !.error_message = error_message]
        ELSE log[i]]

----------------------------------------------------------------------------
(* run_scheduled.py and src/automation/job_executor.py: run_job *)

\* the runner processes (cron starts one per triggered job), the one
\* process of the specifications in which the runs follow one another, and
\* the two revisions of the runner
Procs == {"p1", "p2"}
Serial == {"p1"}
Revisions == {"run_scheduled", "job_executor"}

\* the status written by the except block: 'error' in run_scheduled.py,
\* 'failed' in job_executor.py
ExceptStatus(rev) == IF rev = "run_scheduled" THEN "error" ELSE "failed"

\* a run_job without the test of config.enabled
LoadOutcome_IgnoresEnabled(tbl, job_name) ==
    IF job_name \notin DOMAIN tbl THEN "ret_not_found" ELSE "insert"

\* ConfigManager.load_config followed by the two early returns of run_job
LoadOutcome(tbl, job_name) ==
    IF job_name \notin DOMAIN tbl THEN "ret_not_found"
    ELSE IF ~load_config(tbl, job_name).enabled THEN "ret_disabled"
    ELSE "insert"

\* positions at which a process is not inside run_job: before any call, at
\* each of its return statements, after an exception left it ("propagated")
\* and after the process was killed
RestPcs == {"idle", "ret_not_found", "ret_disabled", "ret_true", "ret_false",
            "propagated", "killed"}

\* the value run_job returned, at a return statement
Returned(pc) == pc = "ret_true"

\* report_type and report_category run_scheduled.py passes, and the
\* fallbacks of job_executor.py
AllReportTypes == <<"current", "quarterly", "semi-annual", "annual">>
AllCategories  == <<"ESPI", "EBI">>

\* no call of scrape yet
NoArgs == [called |-> FALSE, company |-> "", limit |-> NULL,
           report_type |-> <<>>, report_category |-> <<>>, model_name |-> ""]

\* the keyword arguments of scrape(...): run_scheduled.py passes limit=100
\* and the full lists; job_executor.py passes config.report_limit and the
\* lists of the config, or the full lists when a list is None or empty
scrape_call(rev, config, report_limit) ==
    IF rev = "run_scheduled"
    THEN [called |-> TRUE, company |-> config.company, limit |-> 100,
          report_type |-> AllReportTypes, report_category |-> AllCategories,
          model_name |-> config.model]
    ELSE [called |-> TRUE, company |-> config.company, limit |-> report_limit,
          report_type |-> IF Truthy(config.report_types)
                          THEN config.report_types ELSE AllReportTypes,
          report_category |-> IF Truthy(config.report_categories)
                              THEN config.report_categories ELSE AllCategories,
          model_name |-> config.model]

\* what scrape does: it raises, or returns the 4-tuple of its early
\* returns ("Wrong date format", "Request to GPW failed"), or the 5-tuple
\* of its last two returns
ScrapeOutcomes == {"raises", "tuple4", "tuple5"}
TupleLen(outcome) == IF outcome = "tuple4" THEN 4 ELSE 5

\* the number of names the result of scrape is unpacked into
Unpacked(rev) == IF rev = "run_scheduled" THEN 4 ELSE 6

Idle == [pc |-> "idle", job |-> NoJob, rev |-> "run_scheduled",
         execution_id |-> NULL, raised |-> FALSE,
         config |-> PlainConfig(NoJob, <<>>, FALSE), report_limit |-> NULL,
         args |-> NoArgs]

Inserting == { p \in DOMAIN run : run[p].pc = "insert" }

\* run_job returns (or its process ends): the locals config, report_limit
\* and the arguments of the scrape call go out of scope; what the caller
\* sees is the return value, and the model keeps job, rev, execution_id and
\* raised of the finished call for the statements about it
Leave(p, pc) ==
    [run[p] EXCEPT !.pc = pc, !.config = Idle.config, !.report_limit = NULL,
                   !.args = NoArgs]

\* run_job up to the try block: load the config, return early or go on
RunStart(p, job_name, rev) ==
    LET pc == LoadOutcome(jobs, job_name)
    IN  /\ run[p].pc \in RestPcs
        /\ pc = "insert" =>
              /\ Len(ledger) + Cardinality(Inserting) < MaxRuns
              /\ jobs[job_name].run_count < MaxRuns
        /\ run' = [run EXCEPT ![p] =
                      [Idle EXCEPT !.pc = pc, !.job = job_name, !.rev = rev,
                          !.config = IF pc = "insert"
                                     THEN load_config(jobs, job_name)
                                     ELSE Idle.config,
                          !.report_limit =
                              IF pc = "insert"
                              THEN get_scheduled_job(jobs, job_name).report_limit
                              ELSE NULL]]
        /\ UNCHANGED <<jobs, crontab, cronBefore, last, cronOps, ledger, now>>
        /\ UNCHANGED clients
        /\ UNCHANGED peak

\* execution_id = insert_job_execution(job_name, status='running')
RunInsert(p) ==
    /\ run[p].pc = "insert"
    /\ ledger' = insert_job_execution(ledger, run[p].job, "running", now)
    /\ run' = [run EXCEPT ![p].pc = "scrape",
                          ![p].execution_id = Len(ledger) + 1]
    /\ UNCHANGED <<jobs, crontab, cronBefore, last, cronOps, now>>
    /\ UNCHANGED clients
    /\ UNCHANGED peak

\* result = scrape(...), the unpacking of the result and the writing of
\* the result file: scrape may raise, and the unpacking raises ValueError
\* when the tuple has another length than the number of names
RunScrape(p, outcome) ==
    /\ run[p].pc = "scrape"
    /\ LET raises == \/ outcome = "raises"
                     \/ TupleLen(outcome) # Unpacked(run[p].rev)
       IN  run' = [run EXCEPT ![p].pc = IF raises THEN "except" ELSE "close",
                              ![p].raised = raises,
                              ![p].args = scrape_call(run[p].rev,
                                              run[p].config,
                                              run[p].report_limit)]
    /\ UNCHANGED <<jobs, crontab, cronBefore, last, cronOps, ledger, now>>
    /\ UNCHANGED clients
    /\ UNCHANGED peak

\* if execution_id: update_job_execution(status='success', ...)
RunClose(p) ==
    /\ run[p].pc = "close"
    /\ ledger' = IF run[p].execution_id # NULL
                 THEN update_job_execution(ledger, run[p].execution_id,
                                           "success", None, now)
                 ELSE ledger
    /\ run' = [run EXCEPT ![p].pc = "stats"]
    /\ UNCHANGED <<jobs, crontab, cronBefore, last, cronOps, now>>
    /\ UNCHANGED clients
    /\ UNCHANGED peak

\* update_job_run_stats(job_name); return True
RunStats(p) ==
    /\ run[p].pc = "stats"
    /\ jobs' = update_job_run_stats(jobs, run[p].job, NULL, now)
    /\ run' = [run EXCEPT ![p] = Leave(p, "ret_true")]
    /\ UNCHANGED <<crontab, cronBefore, last, cronOps, ledger, now>>
    /\ UNCHANGED clients
    /\ peak' = Peak(jobs')

\* except Exception as e: if execution_id: update_job_execution(status=...,
\* error_message=str(e)); return False
RunExcept(p) ==
    /\ run[p].pc = "except"
    /\ ledger' = IF run[p].execution_id # NULL
                 THEN update_job_execution(ledger, run[p].execution_id,
                                           ExceptStatus(run[p].rev), "str(e)", now)
                 ELSE ledger
    /\ run' = [run EXCEPT ![p] = Leave(p, "ret_false")]
    /\ UNCHANGED <<jobs, crontab, cronBefore, last, cronOps, now>>
    /\ UNCHANGED clients
    /\ UNCHANGED peak

\* A store function of database_connection.py has the shape
\*     try: execute; commit   except Exception: connection.rollback(); print
\* so a call whose statement fails either is swallowed (the rollback works,
\* the function returns None and nothing is written) or raises (the rollback
\* fails too, on a connection that is lost or None).
FailureOutcomes == {"swallowed", "raised"}

\* insert_job_execution fails: swallowed, execution_id is None; raised, the
\* except block of run_job takes over with execution_id None
RunInsertFails(p, outcome) ==
    /\ run[p].pc = "insert"
    /\ run' = [run EXCEPT ![p].pc = IF outcome = "raised" THEN "except"
                                    ELSE "scrape"]
    /\ UNCHANGED <<jobs, crontab, cronBefore, last, cronOps, ledger, now>>
    /\ UNCHANGED clients
    /\ UNCHANGED peak

\* update_job_execution(status='success') fails
RunCloseFails(p, outcome) ==
    /\ run[p].pc = "close"
    /\ run[p].execution_id # NULL
    /\ run' = [run EXCEPT ![p].pc = IF outcome = "raised" THEN "except"
                                    ELSE "stats"]
    /\ UNCHANGED <<jobs, crontab, cronBefore, last, cronOps, ledger, now>>
    /\ UNCHANGED clients
    /\ UNCHANGED peak

\* update_job_run_stats fails, or a later statement of the try block raises
RunStatsFails(p, outcome) ==
    /\ run[p].pc = "stats"
    /\ run' = [run EXCEPT ![p] = IF outcome = "raised"
                                   THEN [run[p] EXCEPT !.pc = "except"]
                                   ELSE Leave(p, "ret_true")]
    /\ UNCHANGED <<jobs, crontab, cronBefore, last, cronOps, ledger, now>>
    /\ UNCHANGED clients
    /\ UNCHANGED peak

\* update_job_execution fails inside the except block: swallowed, run_job
\* returns False; raised, the exception leaves run_job
RunExceptFails(p, outcome) ==
    /\ run[p].pc = "except"
    /\ run[p].execution_id # NULL
    /\ run' = [run EXCEPT ![p] = Leave(p, IF outcome = "raised"
                                                 THEN "propagated"
                                                 ELSE "ret_false")]
    /\ UNCHANGED <<jobs, crontab, cronBefore, last, cronOps, ledger, now>>
    /\ UNCHANGED clients
    /\ UNCHANGED peak

\* run_job_now: subprocess.run(..., timeout=...) of run_scheduled.py; when
\* the timeout expires the child is killed wherever it is, and run_job_now
\* returns the timeout message without a call to the ledger
RunKilled(p) ==
    /\ run[p].pc \notin RestPcs
    /\ run[p].rev = "run_scheduled"
    /\ run' = [run EXCEPT ![p] = Leave(p, "killed")]
    /\ UNCHANGED <<jobs, crontab, cronBefore, last, cronOps, ledger, now>>
    /\ UNCHANGED clients
    /\ UNCHANGED peak

\* the database clock advances
Tick ==
    /\ now < MaxNow
    /\ now' = now + 1
    /\ UNCHANGED <<jobs, crontab, cronBefore, last, cronOps, ledger, run>>
    /\ UNCHANGED clients
    /\ UNCHANGED peak

----------------------------------------------------------------------------
(* Concurrent clients: the UI process and other processes that call        *)
(* ConfigManager and CronManager at the same time                          *)

Clients == {"c1", "c2"}

\* a client that is not inside enable_config or disable_config
AtRest == [pc |-> "rest", job |-> NoJob, flag |-> FALSE,
           config |-> PlainConfig(NoJob, <<>>, FALSE)]

\* a caller that is not inside install_jobs or uninstall_jobs
NoCall == [pc |-> "rest", op |-> "none", active |-> <<>>, current |-> <<>>,
           ok |-> TRUE, read_ok |-> TRUE, wrote |-> FALSE]

\* a call that has returned ok, after a read that went read_ok, having
\* written the crontab or not
Returns(op, ok, read_ok, wrote) ==
    [pc |-> "done", op |-> op, active |-> <<>>, current |-> <<>>,
     ok |-> ok, read_ok |-> read_ok, wrote |-> wrote]

\* ConfigManager.validate_config: the list of errors
validate_config(config) ==
    (IF config.job_name = "" THEN <<"job_name is required">> ELSE <<>>)
    \o (IF config.company = "" THEN <<"company is required">> ELSE <<>>)
    \o (IF config.model = "" THEN <<"model is required">> ELSE <<>>)
    \o (IF config.cron_schedule = <<>> THEN <<"cron_schedule is required">>
        ELSE <<>>)

\* len(cron_expr.split()) of validate_cron_expression
CronParts(cron_expr) ==
    Cardinality({ i \in 1..Len(cron_expr) : cron_expr[i] # WS })

\* manager.save_config(config) followed by manager.load_config of the same
\* job_name; the history keeps the config passed and the config loaded
SaveThenLoad(config) ==
    /\ jobs' = SavedTable(jobs, config)
    /\ last' = [op |-> "save_load", job |-> config.job_name, ok |-> TRUE,
                io |-> <<>>, repeat |-> FALSE, config |-> config,
                loaded |-> load_config(jobs', config.job_name)]
    /\ UNCHANGED <<crontab, cronBefore, cronOps, ledger, run, now>>
    /\ UNCHANGED clients
    /\ peak' = Peak(jobs')

\* ConfigManager.mark_job_executed: one UPDATE statement
mark_job_executed(job_name, next_run) ==
    /\ marks[job_name] < MaxMarks
    /\ jobs' = update_job_run_stats(jobs, job_name, next_run, now)
    /\ marks' = IF Stored(job_name) THEN [marks EXCEPT ![job_name] = @ + 1]
                ELSE marks
    /\ last' = Op("mark", job_name, TRUE, <<>>)
    /\ UNCHANGED <<crontab, cronBefore, cronOps, ledger, run, now,
                   toggles, calls>>
    /\ UNCHANGED ui
    /\ peak' = Peak(jobs')

\* enable_config / disable_config in a process of its own, first half:
\* config = self.load_config(job_name); if config: config.enabled = flag
ToggleLoad(c, job_name, flag) ==
    /\ toggles[c].pc = "rest"
    /\ toggles' = IF Stored(job_name)
                  THEN [toggles EXCEPT ![c] =
                           [pc |-> "save", job |-> job_name, flag |-> flag,
                            config |-> [load_config(jobs, job_name)
                                           EXCEPT !.enabled = flag]]]
                  ELSE toggles
    /\ last' = Declared
    /\ UNCHANGED <<jobs, crontab, cronBefore, cronOps, ledger, run, now,
                   marks, calls>>
    /\ UNCHANGED ui
    /\ UNCHANGED peak

\* second half: self.update_config(config), which is save_config(config)
ToggleSave(c) ==
    /\ toggles[c].pc = "save"
    /\ jobs' = SavedTable(jobs, toggles[c].config)
    /\ toggles' = [toggles EXCEPT ![c] = AtRest]
    /\ last' = [op |-> "toggle_save", job |-> toggles[c].job, ok |-> TRUE,
                io |-> <<>>, repeat |-> FALSE, config |-> toggles[c].config]
    /\ UNCHANGED <<crontab, cronBefore, cronOps, ledger, run, now,
                   marks, calls>>
    /\ UNCHANGED ui
    /\ peak' = Peak(jobs')

\* install_jobs in a process of its own, up to the read of the crontab:
\* the configs are listed; without an active one the call returns False
CallInstall(c) ==
    LET active == ActiveConfigs(jobs)
    IN  /\ calls[c].pc \in {"rest", "done"}
        /\ cronOps < MaxCronOps
        /\ cronOps' = cronOps + 1
        /\ calls' = [calls EXCEPT ![c] =
                        IF active = <<>>
                        THEN Returns("install", FALSE, TRUE, FALSE)
                        ELSE [NoCall EXCEPT !.pc = "read", !.op = "install",
                                            !.active = active]]
        /\ UNCHANGED <<jobs, crontab, cronBefore, last, ledger, run, now,
                       toggles, marks>>
        /\ UNCHANGED ui
        /\ UNCHANGED peak

\* uninstall_jobs in a process of its own, up to the read of the crontab
CallUninstall(c) ==
    /\ calls[c].pc \in {"rest", "done"}
    /\ cronOps < MaxCronOps
    /\ cronOps' = cronOps + 1
    /\ calls' = [calls EXCEPT ![c] =
                    [NoCall EXCEPT !.pc = "read", !.op = "uninstall"]]
    /\ UNCHANGED <<jobs, crontab, cronBefore, last, ledger, run, now,
                   toggles, marks>>
    /\ UNCHANGED ui
    /\ UNCHANGED peak

\* current_crontab = self._read_crontab(): the text of `crontab -l`, or ""
\* when the command fails or exits non-zero.  Without a crontab the command
\* exits non-zero and "" is the text, so a read counts as failed only when
\* there is a crontab.  uninstall_jobs returns True when the text does not
\* contain the start marker.
CallRead(c, read_ok) ==
    LET current == IF read_ok THEN crontab ELSE << <<>> >>
    IN  /\ calls[c].pc = "read"
        /\ read_ok \/ crontab # << <<>> >>
        /\ calls' = [calls EXCEPT ![c] =
                        IF /\ calls[c].op = "uninstall"
                           /\ ~TextContains(current, MARKER_START)
                        THEN Returns("uninstall", TRUE, read_ok, FALSE)
                        ELSE [calls[c] EXCEPT !.pc = "write",
                                              !.current = current,
                                              !.read_ok = read_ok]]
        /\ UNCHANGED <<jobs, crontab, cronBefore, last, cronOps, ledger, run,
                       now, toggles, marks>>
        /\ UNCHANGED ui
        /\ UNCHANGED peak

\* self._write_crontab(new_crontab) and the return of its outcome
CallWrite(c, write_ok) ==
    LET new_crontab == IF calls[c].op = "install"
                       THEN InstallText(calls[c].current, calls[c].active)
                       ELSE UninstallText(calls[c].current)
    IN  /\ calls[c].pc = "write"
        /\ crontab' = IF write_ok THEN new_crontab ELSE crontab
        /\ calls' = [calls EXCEPT ![c] =
                        Returns(calls[c].op, write_ok, calls[c].read_ok,
                                write_ok)]
        /\ UNCHANGED <<jobs, cronBefore, last, cronOps, ledger, run, now,
                       toggles, marks>>
        /\ UNCHANGED ui
        /\ UNCHANGED peak

----------------------------------------------------------------------------
(* src/ui/shared_utils.py, automation_tab.py: the schedule form, and       *)
(* CronManager.validate_cron_expression                                    *)

\* the labels of the form (written here without their diacritics)
Daily   == "Codziennie"
Weekly  == "Co tydzien"
Monthly == "Co miesiac"

\* dow_mapping of schedule_to_cron
dow_mapping ==
    [ d \in {"Poniedzialek", "Wtorek", "Sroda", "Czwartek", "Piatek",
             "Sobota", "Niedziela"} |->
        CASE d = "Poniedzialek" -> "1"
          [] d = "Wtorek"       -> "2"
          [] d = "Sroda"        -> "3"
          [] d = "Czwartek"     -> "4"
          [] d = "Piatek"       -> "5"
          [] d = "Sobota"       -> "6"
          [] d = "Niedziela"    -> "0" ]

\* an int formatted by an f-string: its decimal digits
str(n) == ToString(n)

\* the digit strings of the model, part.isdigit() and int(part)
Numerals == { str(n) : n \in 0..99 }
isdigit(part) == part \in Numerals
int(part) == CHOOSE n \in 0..99 : str(n) = part

\* a swap of the first two fields
schedule_to_cron_HourFirst(frequency, time_hour, time_minute, day_of_week, day_of_month) ==
    <<str(time_hour), WS, str(time_minute), WS, "*", WS, "*", WS,
      IF frequency = Weekly /\ day_of_week \in DOMAIN dow_mapping
      THEN dow_mapping[day_of_week] ELSE "*">>

\* schedule_to_cron: day_of_week None is the text None, day_of_month None
\* is NULL, which is falsy like 0
schedule_to_cron(frequency, time_hour, time_minute, day_of_week, day_of_month) ==
    IF frequency = Daily
    THEN <<str(time_minute), WS, str(time_hour), WS, "*", WS, "*", WS, "*">>
    ELSE IF frequency = Weekly
    THEN LET dow == IF day_of_week \in DOMAIN dow_mapping
                    THEN dow_mapping[day_of_week] ELSE "1"
         IN  <<str(time_minute), WS, str(time_hour), WS, "*", WS, "*", WS, dow>>
    ELSE IF frequency = Monthly
    THEN LET dom == IF day_of_month # NULL THEN day_of_month ELSE 1
         IN  <<str(time_minute), WS, str(time_hour), WS, str(dom), WS, "*",
               WS, "*">>
    ELSE <<str(time_minute), WS, str(time_hour), WS, "*", WS, "*", WS, "*">>

\* cron_expr.split(): the fields between runs of whitespace
split(cron_expr) == SelectSeq(cron_expr, LAMBDA tok : tok # WS)

\* ranges of validate_cron_expression
ranges ==
    << [min_val |-> 0, max_val |-> 59, name |-> "Minuta"],
       [min_val |-> 0, max_val |-> 23, name |-> "Godzina"],
       [min_val |-> 1, max_val |-> 31, name |-> "Dzien"],
       [min_val |-> 1, max_val |-> 12, name |-> "Miesiac"],
       [min_val |-> 0, max_val |-> 7,  name |-> "Dzien tygodnia"] >>

\* the body of the loop of validate_cron_expression returns False for part i
RangeError(parts, i) ==
    /\ parts[i] \notin {"*", "*/1"}
    /\ isdigit(parts[i])
    /\ \/ int(parts[i]) < ranges[i].min_val
       \/ int(parts[i]) > ranges[i].max_val

\* validate_cron_expression: (valid, message); the loop returns at the first
\* part out of its range
validate_cron_expression(cron_expr) ==
    LET parts == split(cron_expr)
    IN  IF Len(parts) # 5
        THEN [valid |-> FALSE, message |-> <<"5 czesci">>]
        ELSE IF \E i \in 1..5 : RangeError(parts, i)
        THEN LET i == CHOOSE k \in 1..5 :
                          /\ RangeError(parts, k)
                          /\ \A m \in 1..(k - 1) : ~RangeError(parts, m)
             IN  [valid |-> FALSE,
                  message |-> <<ranges[i].name, " musi byc miedzy ",
                                str(ranges[i].min_val), " a ",
                                str(ranges[i].max_val)>>]
        ELSE [valid |-> TRUE, message |-> <<"Poprawne wyrazenie cron">>]

\* the form before anything is entered
NoForm ==
    [pc |-> "rest", frequency |-> Daily, time_hour |-> 9, time_minute |-> 0,
     day_of_week |-> "Poniedzialek", day_of_month |-> 1, typed |-> FALSE,
     cron |-> <<>>, valid |-> FALSE, message |-> <<>>]

\* create_job_simple: the form's values become a cron expression
create_job_simple ==
    /\ ui.pc = "form"
    /\ ui' = [ui EXCEPT !.pc = "cron",
                        !.cron = schedule_to_cron(ui.frequency, ui.time_hour,
                                     ui.time_minute, ui.day_of_week,
                                     ui.day_of_month)]
    /\ UNCHANGED <<jobs, crontab, cronBefore, last, cronOps, ledger, run, now,
                   toggles, marks, calls, peak>>

\* validate_cron_expression_ui: the expression of the form, or a typed
\* one, is validated
validate_cron_expression_ui ==
    /\ ui.pc \in {"cron", "typed"}
    /\ LET result == validate_cron_expression(ui.cron)
       IN  ui' = [ui EXCEPT !.pc = "validated", !.valid = result.valid,
                            !.message = result.message]
    /\ UNCHANGED <<jobs, crontab, cronBefore, last, cronOps, ledger, run, now,
                   toggles, marks, calls, peak>>

----------------------------------------------------------------------------
(* The crontab specification: declarations and the crontab *)

\* foreign lines: a command, an indented command, a blank line, and a
\* comment that merely contains the start marker's text
Backup     == <<"backup">>
Indented   == <<WS, "backup">>
OldComment == <<"#", WS, "GPW_SCRAPER_START", "_OLD">>

\* initial crontab texts: no crontab, and files of newline-terminated lines
InitTexts ==
    { << <<>> >>,
      PlusNewline(<<Backup>>),
      PlusNewline(<<Indented, <<>>, Backup>>),
      PlusNewline(<<OldComment, <<>>, Backup>>),
      PlusNewline(<< <<>>, Backup, <<WS>> >>) }

InitTables ==
    /\ jobs = <<>>
    /\ last = [op |-> "init", job |-> NoJob, ok |-> TRUE, io |-> <<>>,
               repeat |-> FALSE]
    /\ cronOps = 0
    /\ ledger = <<>>
    /\ now = 1
    /\ toggles = [c \in Clients |-> AtRest]
    /\ marks = [j \in JobNames |-> 0]
    /\ calls = [c \in Clients |-> NoCall]
    /\ peak = [j \in JobNames |-> 0]

\* the runner processes that exist in a specification, none of them inside
\* run_job yet
Runners(P) == run = [p \in P |-> Idle]

InitCommon ==
    /\ InitTables
    /\ Runners(Serial)
    /\ ui = NoForm

InitCron ==
    /\ InitCommon
    /\ crontab \in InitTexts
    /\ cronBefore = crontab

NextCron ==
    \/ \E c \in SaveInputs, e \in BOOLEAN :
          save_config(PlainConfig(c[1], c[2], e))
    \/ \E j \in JobNames : enable_config(j)
    \/ \E j \in JobNames : disable_config(j)
    \/ \E j \in JobNames : delete_config(j)
    \/ \E w \in BOOLEAN : install_jobs(w)
    \/ \E w \in BOOLEAN : uninstall_jobs(w)

SpecCron == InitCron /\ [][NextCron]_vars

----------------------------------------------------------------------------
(* The unmatched markers specification: crontabs in which a marker line    *)
(* has no partner                                                          *)

\* a start marker with no end marker after it, an end marker with no start
\* marker before it, and a closed section followed by a second start marker
UnmatchedTexts ==
    { PlusNewline(<<Backup, MARKER_START, Backup>>),
      PlusNewline(<<Backup, MARKER_END, Indented>>),
      PlusNewline(<<MARKER_START, MARKER_END, MARKER_START, Backup>>) }

InitUnmatched ==
    /\ InitCommon
    /\ crontab \in UnmatchedTexts
    /\ cronBefore = crontab

SpecUnmatched == InitUnmatched /\ [][NextCron]_vars

----------------------------------------------------------------------------
(* The crontab callers specification: install_jobs and uninstall_jobs      *)
(* called by concurrent processes, with reads and writes that may fail     *)

NextCallers ==
    \/ \E c \in SaveInputs : save_config(PlainConfig(c[1], c[2], TRUE))
    \/ \E c \in Clients : CallInstall(c)
    \/ \E c \in Clients : CallUninstall(c)
    \/ \E c \in Clients, read_ok \in BOOLEAN : CallRead(c, read_ok)
    \/ \E c \in Clients, write_ok \in BOOLEAN : CallWrite(c, write_ok)

SpecCallers == InitCron /\ [][NextCallers]_vars

----------------------------------------------------------------------------
(* The runner specification: declarations, runner processes, the ledger *)

InitRun ==
    /\ InitCommon
    /\ crontab = << <<>> >>
    /\ cronBefore = crontab

\* the declarations and job names the runner is explored with
RunInputs == { c \in SaveInputs : c[2] = Weekly0630 }
RunJobNames == { c[1] : c \in RunInputs }

\* deletion and re-creation are explored for one of the two jobs (they have
\* the same declaration, so the other one's deletion is the same case)
RunDeleted == { "ABC_weekly" }

NextRun ==
    \/ \E c \in RunInputs, e \in BOOLEAN :
          save_config(PlainConfig(c[1], c[2], e))
    \/ \E j \in RunJobNames : enable_config(j)
    \/ \E j \in RunJobNames : disable_config(j)
    \/ \E j \in RunDeleted : delete_config(j)
    \/ \E p \in Serial, j \in RunJobNames, r \in Revisions : RunStart(p, j, r)
    \/ \E p \in Serial : RunInsert(p)
    \/ \E p \in Serial, outcome \in ScrapeOutcomes : RunScrape(p, outcome)
    \/ \E p \in Serial : RunClose(p)
    \/ \E p \in Serial : RunStats(p)
    \/ \E p \in Serial : RunExcept(p)
    \/ Tick

SpecRun == InitRun /\ [][NextRun]_vars

----------------------------------------------------------------------------
(* The fault specification: runs of one enabled job with failing store     *)
(* calls and the timeout of run_job_now                                    *)

FaultJob == "ABC_weekly"

NextFault ==
    \/ save_config(PlainConfig(FaultJob, Weekly0630, TRUE))
    \/ \E p \in Serial, r \in Revisions : RunStart(p, FaultJob, r)
    \/ \E p \in Serial : RunInsert(p)
    \/ \E p \in Serial, outcome \in ScrapeOutcomes : RunScrape(p, outcome)
    \/ \E p \in Serial : RunClose(p)
    \/ \E p \in Serial : RunStats(p)
    \/ \E p \in Serial : RunExcept(p)
    \/ \E p \in Serial, o \in FailureOutcomes : RunInsertFails(p, o)
    \/ \E p \in Serial, o \in FailureOutcomes : RunCloseFails(p, o)
    \/ \E p \in Serial, o \in FailureOutcomes : RunStatsFails(p, o)
    \/ \E p \in Serial, o \in FailureOutcomes : RunExceptFails(p, o)
    \/ \E p \in Serial : RunKilled(p)
    \/ Tick

SpecFault == InitRun /\ [][NextFault]_vars

----------------------------------------------------------------------------
(* The failing calls specification: completed runs of one enabled job, in  *)
(* which a ledger or store call may fail; no run is killed and the job is  *)
(* never deleted                                                           *)

NextFailing ==
    \/ save_config(PlainConfig(FaultJob, Weekly0630, TRUE))
    \/ \E p \in Serial, r \in Revisions : RunStart(p, FaultJob, r)
    \/ \E p \in Serial : RunInsert(p)
    \/ \E p \in Serial, outcome \in ScrapeOutcomes : RunScrape(p, outcome)
    \/ \E p \in Serial : RunClose(p)
    \/ \E p \in Serial : RunStats(p)
    \/ \E p \in Serial : RunExcept(p)
    \/ \E p \in Serial, o \in FailureOutcomes : RunInsertFails(p, o)
    \/ \E p \in Serial, o \in FailureOutcomes : RunCloseFails(p, o)
    \/ \E p \in Serial, o \in FailureOutcomes : RunStatsFails(p, o)
    \/ \E p \in Serial, o \in FailureOutcomes : RunExceptFails(p, o)
    \/ Tick

SpecFailing == InitRun /\ [][NextFailing]_vars

----------------------------------------------------------------------------
(* The overlap specification: two runner processes execute run_job of one  *)
(* job at the same time                                                    *)

NextOverlap ==
    \/ save_config(PlainConfig(FaultJob, Weekly0630, TRUE))
    \/ \E p \in Procs, r \in Revisions : RunStart(p, FaultJob, r)
    \/ \E p \in Procs : RunInsert(p)
    \/ \E p \in Procs, outcome \in ScrapeOutcomes : RunScrape(p, outcome)
    \/ \E p \in Procs : RunClose(p)
    \/ \E p \in Procs : RunStats(p)
    \/ \E p \in Procs : RunExcept(p)
    \/ Tick

InitOverlap ==
    /\ InitTables
    /\ Runners(Procs)
    /\ ui = NoForm
    /\ crontab = << <<>> >>
    /\ cronBefore = crontab

SpecOverlap == InitOverlap /\ [][NextOverlap]_vars

----------------------------------------------------------------------------
(* The store specification: declarations written and read by concurrent    *)
(* clients, and the statistics of one job                                  *)

StoreJob == "PKO_daily"

\* the configs save_config is called with: a plain one; one with lists and
\* a description; one with an empty list; two that validation would refuse
StoreConfigs ==
    { PlainConfig(StoreJob, Daily0900, TRUE),
      ScrapingConfig(StoreJob, "PKO", "llama3", Weekly0630, FALSE,
                     <<"ESPI">>, <<"current">>, <<"weekly", WS, "PKO">>),
      ScrapingConfig(StoreJob, "PKO", "llama3", Daily0900, TRUE,
                     <<>>, NoList, <<>>),
      ScrapingConfig(StoreJob, "PKO", "", <<>>, TRUE, NoList, NoList, <<>>),
      ScrapingConfig("ABC_weekly", "", "llama3", <<"daily">>, TRUE,
                     NoList, NoList, <<>>) }

\* the next_run values mark_job_executed is called with
NextRuns == {NULL, MaxNow + 1}

NextStore ==
    \/ \E config \in StoreConfigs : SaveThenLoad(config)
    \/ \E t \in NextRuns : mark_job_executed(StoreJob, t)
    \/ \E c \in Clients, flag \in BOOLEAN : ToggleLoad(c, StoreJob, flag)
    \/ \E c \in Clients : ToggleSave(c)

SpecStore == InitRun /\ [][NextStore]_vars

----------------------------------------------------------------------------
(* The scrape specification: runs of one job declared with different       *)
(* companies, models and report lists                                      *)

\* the enabled configs the job is declared with
ScrapeConfigs ==
    { PlainConfig(StoreJob, Daily0900, TRUE),
      ScrapingConfig(StoreJob, "KGHM", "mistral", Weekly0630, TRUE,
                     <<"quarterly">>, <<"ESPI">>, <<>>),
      ScrapingConfig(StoreJob, "PKO", "llama3", Daily0900, TRUE,
                     <<"current", "annual">>, NoList, <<>>) }

NextScrape ==
    \/ \E config \in ScrapeConfigs : save_config(config)
    \/ \E p \in Serial, r \in Revisions : RunStart(p, StoreJob, r)
    \/ \E p \in Serial : RunInsert(p)
    \/ \E p \in Serial, outcome \in ScrapeOutcomes : RunScrape(p, outcome)
    \/ \E p \in Serial : RunClose(p)
    \/ \E p \in Serial : RunStats(p)
    \/ \E p \in Serial : RunExcept(p)
    \/ Tick

SpecScrape == InitRun /\ [][NextScrape]_vars

----------------------------------------------------------------------------
(* The toggle specification: enable_config and disable_config on stored    *)
(* and on unknown job names, between saves and executions                  *)

ToggleJobs == {StoreJob, "ABC_weekly"}

NextToggle ==
    \/ \E config \in StoreConfigs : save_config(config)
    \/ \E t \in NextRuns : mark_job_executed(StoreJob, t)
    \/ \E j \in ToggleJobs : enable_config(j)
    \/ \E j \in ToggleJobs : disable_config(j)
    \/ Tick

SpecToggle == InitRun /\ [][NextToggle]_vars

----------------------------------------------------------------------------
(* The schedule form specification: every input of the form, and typed     *)
(* cron expressions                                                        *)

Frequencies == {Daily, Weekly, Monthly, "custom"}
Hours       == 0..23
Minutes     == 0..59
\* the weekday names, a name the mapping does not know, and no name
Weekdays    == DOMAIN dow_mapping \cup {"Monday", None}
\* the days of the month, and NULL for an omitted day
DaysOfMonth == {NULL} \cup 1..31

\* the inputs of the form: the weekday matters to weekly schedules only and
\* the day of the month to monthly ones
Forms ==
    { [NoForm EXCEPT !.pc = "form", !.frequency = f, !.time_hour = h,
                     !.time_minute = m] :
        f \in {Daily, "custom"}, h \in Hours, m \in Minutes }
    \cup
    { [NoForm EXCEPT !.pc = "form", !.frequency = Weekly, !.time_hour = h,
                     !.time_minute = m, !.day_of_week = d] :
        h \in Hours, m \in Minutes, d \in Weekdays }
    \cup
    { [NoForm EXCEPT !.pc = "form", !.frequency = Monthly, !.time_hour = h,
                     !.time_minute = m, !.day_of_month = d] :
        h \in Hours, m \in Minutes, d \in DaysOfMonth }

\* the fields typed expressions are made of: wildcards, a step, numbers at
\* and beyond the edges of the domains, and a word
TypedFields == {"*", "*/1", "*/5", "0", "7", "8", "60", "abc"}

\* typed expressions: five fields, and some with four and with six
TypedCrons ==
    { <<a, WS, b, WS, c, WS, d, WS, e>> :
        a \in TypedFields, b \in TypedFields, c \in TypedFields,
        d \in TypedFields, e \in {"*", "0", "7", "8", "abc"} }
    \cup { <<a, WS, b, WS, "*", WS, "*">> : a \in TypedFields, b \in TypedFields }
    \cup { <<a, WS, WS, b, WS, "*", WS, "*", WS, "*", WS, "*">> :
             a \in TypedFields, b \in TypedFields }

InitForm ==
    /\ InitTables
    /\ Runners(Serial)
    /\ crontab = << <<>> >>
    /\ cronBefore = crontab
    /\ ui \in Forms \cup { [NoForm EXCEPT !.pc = "typed", !.typed = TRUE, !.cron = t] :
                            t \in TypedCrons }

NextForm ==
    \/ create_job_simple
    \/ validate_cron_expression_ui

SpecForm == InitForm /\ [][NextForm]_vars

----------------------------------------------------------------------------
(* src/ui/tabs/schedules_tab.py, automation_tab.py: the job name of an     *)
(* installed line                                                          *)

\* index of the first token tok in line, 0 if there is none
RECURSIVE IndexOf(_, _, _)
IndexOf(line, tok, i) ==
    IF i > Len(line) THEN 0
    ELSE IF line[i] = tok THEN i ELSE IndexOf(line, tok, i + 1)

\* text.split()[0]: the first whitespace-separated word, <<>> if none
RECURSIVE FirstWord(_)
FirstWord(line) ==
    LET s == LStrip(line)
    IN  IF s = <<>> THEN <<>>
        ELSE IF Len(s) = 1 \/ s[2] = WS THEN <<s[1]>>
        ELSE <<s[1]>> \o FirstWord(Tail(s))

\* line.split("run_scheduled.py")[1].split()[0]; <<>> when the line names
\* no run_scheduled.py
InstalledJobName(line) ==
    LET i == IndexOf(line, "run_scheduled.py", 1)
    IN  IF i = 0 THEN <<>> ELSE FirstWord(SubSeq(line, i + 1, Len(line)))

\* installed_job_names of get_active_jobs_status / installed of get_jobs_table
InstalledJobNames(text) ==
    LET ls == get_installed_jobs(text)
    IN  { InstalledJobName(ls[i]) : i \in 1..Len(ls) } \ { <<>> }

\* the status labels of get_jobs_table (written without their symbols)
Aktywne     == <<"Aktywne">>
Wylaczone   == <<"Wylaczone">>
BrakWCron   == <<WS, "(brak w cron)">>

\* get_jobs_table: one row per stored config, in list_configs order; the
\* status of an enabled job no installed line names gets "(brak w cron)"
get_jobs_table(tbl, text) ==
    LET configs   == list_configs(tbl)
        installed == InstalledJobNames(text)
    IN  [i \in 1..Len(configs) |->
            LET cfg == configs[i]
                status == IF cfg.enabled THEN Aktywne ELSE Wylaczone
            IN  [job_name |-> cfg.job_name,
                 status |-> IF cfg.enabled /\ <<cfg.job_name>> \notin installed
                            THEN status \o BrakWCron ELSE status]]


----------------------------------------------------------------------------
(* Vocabulary of the properties *)

\* the lines of a text, its final newline being a terminator and not a line
TextLines(text) ==
    IF text[Len(text)] = <<>> THEN SubSeq(text, 1, Len(text) - 1) ELSE text

IsMarker(line) == IsStart(line) \/ IsEnd(line)

\* the managed section: marker lines and the lines between a start marker
\* and the next end marker
RECURSIVE ManagedUpTo(_, _)
ManagedUpTo(lines, n) ==
    IF n = 0 THEN <<>>
    ELSE IF IsMarker(lines[n]) \/ InOurSection(lines, n)
         THEN Append(ManagedUpTo(lines, n - 1), lines[n])
         ELSE ManagedUpTo(lines, n - 1)

ManagedSection(text) == ManagedUpTo(TextLines(text), Len(TextLines(text)))

\* the foreign lines: everything that is not in the managed section
RECURSIVE OutsideUpTo(_, _)
OutsideUpTo(lines, n) ==
    IF n = 0 THEN <<>>
    ELSE IF IsMarker(lines[n]) \/ InOurSection(lines, n)
         THEN OutsideUpTo(lines, n - 1)
         ELSE Append(OutsideUpTo(lines, n - 1), lines[n])

OutsideLines(text) == OutsideUpTo(TextLines(text), Len(TextLines(text)))

HasManagedSection(text) == \E i \in 1..Len(text) : IsStart(text[i])

EnabledJobs == { j \in JobNames : Stored(j) /\ jobs[j].enabled }

\* the job has a command line in the managed section of the text
HasLineFor(text, j) == <<j>> \in InstalledJobNames(text)

InstallSucceeded == last.op = "install" /\ last.ok

\* job names whose comment line "# <job_name>" reads as a marker line
MarkerNamedJobs ==
    { j \in JobNames : <<"#", WS, j>> \in {MARKER_START, MARKER_END} }

\* no such job is stored or has left a line in the crontab
OrdinaryNames ==
    \A j \in MarkerNamedJobs :
        /\ ~Stored(j)
        /\ \A k \in 1..Len(cronBefore) :
              IsMarker(cronBefore[k]) \/ IndexOf(cronBefore[k], j, 1) = 0

----------------------------------------------------------------------------
(* C1: two successful install_jobs calls in a row, the declarations        *)
(* unchanged in between, leave the same managed section (start marker      *)
(* through end marker) after the second call as after the first.           *)
C1_InstallIdempotent ==
    last.repeat => ManagedSection(crontab) = ManagedSection(cronBefore)

C1_Witness ==
    /\ last.repeat
    /\ EnabledJobs = {"ABC_weekly", "PKO_daily"}
    /\ Len(ManagedSection(crontab)) = 6

(* C2: a successful install_jobs leaves the lines outside the markers      *)
(* exactly as they were, blank lines included, on every call.  Stated for  *)
(* declarations whose comment lines are not marker lines, so that the      *)
(* property is about the foreign lines alone.                              *)
C2_InstallKeepsForeign ==
    (InstallSucceeded /\ OrdinaryNames) =>
        OutsideLines(crontab) = OutsideLines(cronBefore)

(* C3: on a crontab with a managed section a successful uninstall_jobs     *)
(* removes the markers and what is between them and leaves every line      *)
(* outside them unmodified and in order, blank lines included.  Stated for *)
(* declarations whose comment lines are not marker lines.                  *)
C3_UninstallKeepsForeign ==
    ( /\ last.op = "uninstall" /\ last.ok
      /\ HasManagedSection(cronBefore) /\ OrdinaryNames ) =>
        /\ ManagedSection(crontab) = <<>>
        /\ OutsideLines(crontab) = OutsideLines(cronBefore)

(* C4: uninstall_jobs on a crontab without a managed section returns       *)
(* success, performs no write and leaves the text unchanged.               *)
C4_UninstallIdempotent ==
    (last.op = "uninstall" /\ ~HasManagedSection(cronBefore)) =>
        /\ last.ok
        /\ last.io = <<"read">>
        /\ crontab = cronBefore

(* C5: with no enabled job install_jobs returns failure without reading    *)
(* or writing the crontab, whose text stays as it was.                     *)
C5_InstallFailsFast ==
    (last.op = "install" /\ EnabledJobs = {}) =>
        /\ ~last.ok
        /\ last.io = <<>>
        /\ crontab = cronBefore

C5_Witness ==
    /\ last.op = "install"
    /\ EnabledJobs = {}
    /\ DOMAIN jobs # {}
    /\ HasManagedSection(crontab)

(* C6: after a successful install_jobs the managed section holds exactly   *)
(* one command line per enabled job and none for a disabled one: the job   *)
(* names of get_installed_jobs() are the enabled jobs' names, each command *)
(* line starts with its job's cron_schedule and follows a comment line.    *)
C6_SectionMatchesEnabled ==
    InstallSucceeded =>
        LET ls == get_installed_jobs(crontab)
            ms == ManagedSection(crontab)
        IN  /\ InstalledJobNames(crontab) = { <<j>> : j \in EnabledJobs }
            /\ Len(ls) = Cardinality(EnabledJobs)
            /\ \A i \in 1..Len(ls) :
                  \E j \in EnabledJobs :
                     /\ InstalledJobName(ls[i]) = <<j>>
                     /\ SubSeq(ls[i], 1, Len(jobs[j].cron_schedule))
                            = jobs[j].cron_schedule
            /\ \A k \in 1..Len(ms) :
                  (~IsMarker(ms[k]) /\ ms[k] # <<>> /\ Head(ms[k]) # "#") =>
                      (k > 1 /\ ~IsMarker(ms[k - 1]) /\ Head(ms[k - 1]) = "#")

(* C7: a job installed while enabled has no line in the managed section    *)
(* once it is disabled and install_jobs is called again, also when it was  *)
(* the only enabled job.  (A failed crontab write is not the case meant.)  *)
WriteFailed == ~last.ok /\ last.io # <<>>

C7_DisabledJobRemoved ==
    \A j \in JobNames :
        ( /\ last.op = "install"
          /\ ~WriteFailed
          /\ Stored(j) /\ ~jobs[j].enabled
          /\ HasLineFor(cronBefore, j) ) => ~HasLineFor(crontab, j)

(* C7 as amended: when install_jobs returns success after the job was      *)
(* disabled, the managed section has no line for it; when the job was the  *)
(* only enabled one, install_jobs returns failure and the job's line stays *)
(* in the managed section.                                                 *)
C7_DisabledJobRemovedOnSuccess ==
    \A j \in JobNames :
        ( /\ last.op = "install"
          /\ Stored(j) /\ ~jobs[j].enabled
          /\ HasLineFor(cronBefore, j) ) =>
            /\ last.ok => ~HasLineFor(crontab, j)
            /\ EnabledJobs = {} => (~last.ok /\ HasLineFor(crontab, j))

C7_Witness ==
    \E j \in JobNames :
        /\ InstallSucceeded
        /\ Stored(j) /\ ~jobs[j].enabled
        /\ HasLineFor(cronBefore, j)
        /\ ~HasLineFor(crontab, j)

(* C8: after delete_config returns success for a job whose line is         *)
(* installed, the managed section holds no line for that job.              *)
C8_DeleteRemovesLine ==
    [][ \A j \in JobNames :
          (Stored(j) /\ j \notin DOMAIN jobs' /\ HasLineFor(crontab, j)) =>
              ~HasLineFor(crontab', j) ]_vars

(* C9: run_job on a job that is not stored, or is stored with enabled =    *)
(* false, returns False and leaves the execution ledger and the job's      *)
(* run_count and last_run as they were.                                    *)
C9_NoRecordWhenSkipped ==
    [][ \A p \in DOMAIN run, j \in JobNames :
          ( /\ run[p].pc \in RestPcs
            /\ run'[p] # run[p]
            /\ run'[p].job = j
            /\ ~Stored(j) \/ ~jobs[j].enabled ) =>
              /\ run'[p].pc \in {"ret_not_found", "ret_disabled"}
              /\ ~Returned(run'[p].pc)
              /\ ledger' = ledger
              /\ jobs' = jobs ]_vars

C9_Witness ==
    \E p \in DOMAIN run :
        /\ run[p].pc = "ret_disabled"
        /\ Stored(run[p].job)
        /\ ~jobs[run[p].job].enabled
        /\ jobs[run[p].job].run_count > 0
        /\ ledger # <<>>

(* C10: a run whose collaborator raised leaves exactly one execution       *)
(* record of its own, with status 'failed' and a non-null error_message,   *)
(* in both runner revisions.                                               *)
C10_RaisedRunIsFailed ==
    \A p \in DOMAIN run :
        (run[p].pc = "ret_false" /\ run[p].raised) =>
            /\ run[p].execution_id # NULL
            /\ ledger[run[p].execution_id].job_name = run[p].job
            /\ ledger[run[p].execution_id].status = "failed"
            /\ ledger[run[p].execution_id].error_message # None

\* the terminal statuses of an execution record
Terminal(status) == status \in {"success", "failed", "no_reports"}

(* C11: an execution record whose status is terminal (success, failed or   *)
(* no_reports) is never updated again: a later update_job_execution leaves *)
(* its status, finished_at, duration_seconds and error_message as they     *)
(* were.                                                                   *)
C11_TerminalRecordIsImmutable ==
    [][ \A i \in 1..Len(ledger) :
          Terminal(ledger[i].status) => ledger'[i] = ledger[i] ]_vars

(* C12: the status of every execution record is one of running, success,   *)
(* failed, no_reports, and finished_at is null exactly when the status is  *)
(* running.                                                                *)
C12_StatusAndFinishedAt ==
    \A i \in 1..Len(ledger) :
        /\ ledger[i].status \in {"running", "success", "failed", "no_reports"}
        /\ (ledger[i].finished_at = NULL) <=> (ledger[i].status = "running")

(* C13: after run_job_now has returned because of the timeout, the record  *)
(* the killed subprocess opened has status 'failed' and a message that     *)
(* names the timeout.                                                      *)
C13_TimedOutRunIsClosed ==
    \A p \in DOMAIN run :
        (run[p].pc = "killed" /\ run[p].execution_id # NULL) =>
            /\ ledger[run[p].execution_id].status = "failed"
            /\ ledger[run[p].execution_id].error_message = "timeout"

(* C14: no exception leaves run_job, whichever call made during the run    *)
(* fails, the update_job_execution of the error handler included.          *)
C14_NothingPropagates ==
    \A p \in DOMAIN run : run[p].pc # "propagated"

\* the statistics of a stored job
Stats(row) == <<row.run_count, row.last_run, row.next_run>>

(* C15: a save_config on a job_name that is stored (called directly or by  *)
(* enable_config / disable_config) leaves run_count, last_run and next_run *)
(* of that job as they were, whatever config is passed.                    *)
C15_SaveKeepsStats ==
    [][ \A j \in JobNames :
          ( /\ Stored(j)
            /\ last'.op \in {"save_load", "toggle_save"}
            /\ last'.job = j ) =>
              Stats(jobs'[j]) = Stats(jobs[j]) ]_vars

C15_Witness ==
    /\ last.op = "save_load"
    /\ jobs[last.job].run_count > 0
    /\ jobs[last.job].last_run # NULL
    /\ jobs[last.job].next_run # NULL
    /\ jobs[last.job].cron_schedule = Weekly0630

\* the config passed in is valid: the required fields are not empty and
\* cron_schedule has five parts
ValidConfig(config) ==
    /\ validate_config(config) = <<>>
    /\ CronParts(config.cron_schedule) = 5

(* C16: save_config followed by load_config of the same job_name returns,  *)
(* for a valid config, a config equal to the saved one on company, model,  *)
(* cron_schedule, enabled, report_types, report_categories and             *)
(* description.                                                            *)
C16_SaveLoadRoundTrip ==
    (last.op = "save_load" /\ ValidConfig(last.config)) =>
        /\ last.loaded.company = last.config.company
        /\ last.loaded.model = last.config.model
        /\ last.loaded.cron_schedule = last.config.cron_schedule
        /\ last.loaded.enabled = last.config.enabled
        /\ last.loaded.report_types = last.config.report_types
        /\ last.loaded.report_categories = last.config.report_categories
        /\ last.loaded.description = last.config.description

(* C17: save_config called with an invalid config (an empty job_name,      *)
(* company, model or cron_schedule, or a cron_schedule that has not five   *)
(* parts) leaves the stored job declarations unchanged.                    *)
C17_InvalidConfigNotStored ==
    [][ (last'.op = "save_load" /\ ~ValidConfig(last'.config)) =>
            jobs' = jobs ]_vars

(* C18: run_count of a stored job equals the number of mark_job_executed   *)
(* calls made for it since its row was created, however these calls        *)
(* interleave with save_config, enable_config and disable_config of other  *)
(* processes.                                                              *)
C18_NoLostIncrement ==
    \A j \in JobNames : Stored(j) => jobs[j].run_count = marks[j]

C18_Witness ==
    /\ last.op = "toggle_save"
    /\ last.config.run_count < jobs[last.job].run_count
    /\ jobs[last.job].run_count = MaxMarks
    /\ jobs[last.job].enabled = last.config.enabled

(* C19: the read-modify-write of install_jobs and uninstall_jobs is a      *)
(* critical section: while one call is between its read of the crontab and *)
(* its write, no other call reads or writes the crontab, so two calls are  *)
(* never both between their read and their write.                          *)
C19_CriticalSection ==
    \A a, b \in Clients :
        a # b => ~(calls[a].pc = "write" /\ calls[b].pc = "write")

(* C20: a call of install_jobs or uninstall_jobs whose read of the crontab *)
(* failed returns failure and has written nothing.                         *)
C20_FailedReadWritesNothing ==
    \A c \in Clients :
        (calls[c].pc = "done" /\ ~calls[c].read_ok) =>
            (~calls[c].ok /\ ~calls[c].wrote)

----------------------------------------------------------------------------
(* The schedule form and cron expressions *)

\* the weekdays in cron's numbering: Sunday is 0, Monday is 1
WeekOrder == <<"Niedziela", "Poniedzialek", "Wtorek", "Sroda", "Czwartek",
               "Piatek", "Sobota">>

\* the form was filled in, converted and validated
FormValidated ==
    /\ ui.pc = "validated"
    /\ ~ui.typed
    /\ ui.frequency \in {Daily, Weekly, Monthly}

FieldInDomain(parts, i) ==
    \/ parts[i] \in {"*", "*/1"}
    \/ /\ isdigit(parts[i])
       /\ int(parts[i]) >= ranges[i].min_val
       /\ int(parts[i]) <= ranges[i].max_val

\* C22: validate_cron_expression accepts a text exactly when it has five
\* whitespace-separated fields and every field is the wildcard or a number
\* of its domain, and the message for a rejected text of five fields names
\* every violated field
C22_ValidateCronExact ==
    ui.pc = "validated" =>
        LET parts == split(ui.cron)
        IN  /\ ui.valid <=> /\ Len(parts) = 5
                            /\ \A i \in 1..5 : FieldInDomain(parts, i)
            /\ (~ui.valid /\ Len(parts) = 5) =>
                   \A i \in 1..5 :
                       ~FieldInDomain(parts, i) =>
                           \E k \in 1..Len(ui.message) :
                               ui.message[k] = ranges[i].name

----------------------------------------------------------------------------
(* Drift between the declarations and the crontab *)

\* the rows of the jobs table for the current store and crontab
JobsTable == get_jobs_table(jobs, crontab)

\* the table flags the job as missing from cron
FlaggedMissing(rows, j) ==
    \E i \in 1..Len(rows) :
        /\ rows[i].job_name = j
        /\ LineContains(rows[i].status, BrakWCron)

\* the table flags the name: it has a row for it whose status says more
\* than enabled or disabled
FlaggedOrphaned(rows, name) ==
    \E i \in 1..Len(rows) :
        /\ <<rows[i].job_name>> = name
        /\ rows[i].status \notin {Aktywne, Wylaczone}

\* C23: a stored job is flagged as missing from cron exactly when it is
\* enabled and no installed line carries its job_name, and a job name of an
\* installed line that belongs to no enabled config is flagged as orphaned
C23_DriftIsReported ==
    /\ \A j \in DOMAIN jobs :
           FlaggedMissing(JobsTable, j) <=>
               (jobs[j].enabled /\ ~HasLineFor(crontab, j))
    /\ \A name \in InstalledJobNames(crontab) :
           name \notin { <<j>> : j \in EnabledJobs } =>
               FlaggedOrphaned(JobsTable, name)

----------------------------------------------------------------------------
(* The order of the execution records *)

\* C24: the execution records of one job are closed in the order they were
\* opened: a record opened after a record of the same job that is still
\* running is itself still running, also when two run_job calls of the job
\* execute at the same time in separate processes
C24_ClosedInOpeningOrder ==
    \A a, b \in 1..Len(ledger) :
        ( /\ a < b
          /\ ledger[a].job_name = ledger[b].job_name
          /\ ledger[a].status = "running" ) =>
            ledger[b].status = "running"

----------------------------------------------------------------------------
(* The history of run_count *)

\* C25: run_count of a job_name never decreases: whatever save_config,
\* enable_config, disable_config, run_job, delete_config and re-creations
\* of the job_name have happened, the stored run_count is at least every
\* value stored for the job_name before
C25_RunCountNeverDecreases ==
    \A j \in DOMAIN jobs : jobs[j].run_count >= peak[j]

----------------------------------------------------------------------------
(* The parameters of the scraping collaborator *)

\* the list passed is the declared one; a list that was not declared (None)
\* leaves the choice to the runner
PassesList(passed, declared) == declared = NoList \/ passed = declared

\* C26: run_job calls scrape with the parameters declared in the stored
\* job: company, model, report_limit, report_types and report_categories
\* passed equal the fields of the config the run loaded, in both revisions
\* of the runner
C26_ScrapeGetsDeclaredParameters ==
    \A p \in DOMAIN run :
        run[p].args.called =>
            /\ run[p].args.company = run[p].config.company
            /\ run[p].args.model_name = run[p].config.model
            /\ run[p].args.limit = run[p].report_limit
            /\ PassesList(run[p].args.report_type, run[p].config.report_types)
            /\ PassesList(run[p].args.report_category,
                          run[p].config.report_categories)

----------------------------------------------------------------------------
(* Run statistics and the ledger *)

\* the execution records of the job with status 'success'
SuccessRecords(j) ==
    { i \in 1..Len(ledger) :
        ledger[i].job_name = j /\ ledger[i].status = "success" }

\* every run_job call so far has completed
NoRunInProgress == \A p \in DOMAIN run : run[p].pc \in RestPcs

\* C27: for a job that is never deleted, once every run_job call has
\* completed (also calls in which a ledger or store call failed), run_count
\* of the job equals the number of its execution records with status
\* 'success'
C27_RunCountMatchesLedger ==
    (NoRunInProgress /\ Stored(FaultJob)) =>
        jobs[FaultJob].run_count = Cardinality(SuccessRecords(FaultJob))

----------------------------------------------------------------------------
(* The frame of enable_config and disable_config *)

\* the stored fields of a row other than the enabled flag
OtherFields(row) ==
    <<row.company, row.model, row.cron_schedule, row.report_limit,
      row.report_types, row.report_categories, row.run_count, row.last_run,
      row.next_run>>

----------------------------------------------------------------------------
(* Marker lines without a partner, and the shape of the managed section *)

\* the marker line u of the lines has no partner: a start marker with no
\* end marker after it, or an end marker that closes no section
Unmatched(lines, u) ==
    \/ /\ IsStart(lines[u])
       /\ \A e \in (u + 1)..Len(lines) : ~IsEnd(lines[e])
    \/ /\ IsEnd(lines[u])
       /\ ~InOurSection(lines, u)

\* line k lies between a start marker and a following end marker
Enclosed(lines, k) ==
    /\ InOurSection(lines, k)
    /\ \E e \in (k + 1)..Len(lines) : IsEnd(lines[e])

\* line k of the lines is a foreign line that follows an unmatched marker
ForeignAfterUnmatched(lines, k) ==
    /\ ~IsMarker(lines[k])
    /\ ~IsBlank(lines[k])
    /\ ~Enclosed(lines, k)
    /\ \E u \in 1..(k - 1) : Unmatched(lines, u)

\* C29: install_jobs and uninstall_jobs remove only lines between a start
\* marker and a following end marker: after a successful call on a crontab
\* with an unmatched marker, every foreign line that follows the unmatched
\* marker is still in the crontab
C29_UnmatchedMarkerDropsNothing ==
    (last.op \in {"install", "uninstall"} /\ last.ok) =>
        \A k \in 1..Len(cronBefore) :
            ForeignAfterUnmatched(cronBefore, k) =>
                \E m \in 1..Len(crontab) :
                    Strip(crontab[m]) = Strip(cronBefore[k])

StartLines(text) == { i \in 1..Len(text) : IsStart(text[i]) }
EndLines(text)   == { i \in 1..Len(text) : IsEnd(text[i]) }

\* line i of the text is the command line of a job
IsCommandLine(text, i) == IndexOf(text[i], "run_scheduled.py", 1) # 0

\* C30: starting from a crontab without marker lines, after every sequence
\* of install_jobs and uninstall_jobs calls, with saves, enables, disables
\* and deletes of jobs in between, the crontab has at most one start marker
\* line and at most one end marker line, the start marker precedes the end
\* marker, and no command line of a job is outside that section
C30_OneWellFormedSection ==
    /\ Cardinality(StartLines(crontab)) <= 1
    /\ Cardinality(EndLines(crontab)) <= 1
    /\ \A b \in StartLines(crontab), e \in EndLines(crontab) : b < e
    /\ \A i \in 1..Len(crontab) :
           IsCommandLine(crontab, i) =>
               \E b \in StartLines(crontab), e \in EndLines(crontab) :
                   b < i /\ i < e

=============================================================================
